---- MODULE Spec2Model ----
(***************************************************************************)
(* Quillr backend: the FastAPI application of app/main.py with the article *)
(* router of app/routers/articles.py mounted under /articles, the session  *)
(* boundary of app/utils/auth.py and the two tables of app/db/models.py.   *)
(*                                                                         *)
(* Every request is served by its own task.  A handler is cut into steps   *)
(* at its interactions with the database: the code between two             *)
(* interactions touches only the task's own objects.  The database is a    *)
(* READ COMMITTED store: a SELECT sees the rows committed so far, and the  *)
(* UPDATE a commit flushes sets the columns the handler assigned to the    *)
(* values the handler computed from the row it loaded.                     *)
(*                                                                         *)
(* Time is counted in whole seconds: jose writes exp as whole seconds and   *)
(* compares it with the clock in whole seconds.                            *)
(*                                                                         *)
(* A task that has answered shows its response (pc = "done") before any    *)
(* other step is taken; Return then frees the task.                        *)
(***************************************************************************)
EXTENDS Integers, Sequences, FiniteSets, TLC

\* ---------------------------------------------------------------- bounds
MaxProc == 2          \* requests served at the same time
MaxLogins == 2        \* credentials minted in a run
MaxArticles == 1      \* rows of the article table
MaxCount == 2         \* views / likes requested per article
MaxSkew == 1          \* seconds explored around each interesting instant
MaxStore == 11        \* rows of the article table the trending query is run on

\* ------------------------------------------------------ program constants
ACCESS_TOKEN_EXPIRE_MINUTES == 10080
TrendingLimit == 10

\* Python's None for string fields, and for an Optional[datetime]
None == "<None>"
NoTime == -1

Proc == 1..MaxProc

ExpireSeconds == 60 * ACCESS_TOKEN_EXPIRE_MINUTES

\* the instants the clock is sampled at
Instants == (0..MaxSkew) \cup { ExpireSeconds + d : d \in 0..MaxSkew }

VARIABLES
    users,      \* table "user": sequence of rows, row i has id i
    articles,   \* table "article": sequence of rows, row i has id i
    now,        \* datetime.utcnow(), in seconds
    minted,     \* the credentials the login flow has handed out
    pc,         \* per task: "idle", the step it waits at, or "done"
    request,    \* per task: the request it serves
    local,      \* per task: the handler's local objects
    response,   \* per task: the response, once pc = "done"
    alone,      \* per task: no other request ran since this one started
    env,        \* os.environ (after load_dotenv) of the process
    app,        \* the process: "loading", "serving" or "fatal"
    cleared     \* the minted credentials a logout response has told the
                \* browser to drop

vars == <<users, articles, now, minted, pc, request, local, response, alone,
          env, app, cleared>>

\* ------------------------------------------------------------ Token Codec
\* the server's signing secret and a secret a client may guess
SECRET_KEY == "server-secret"
OtherKey == "client-guess"

\* HMAC over the payload: determined by key and payload, and changing either
\* changes it
HS256(key, user_id, exp) == <<key, user_id, exp>>

NoToken == [fmt |-> "empty", user_id |-> 0, exp |-> 0, sig |-> <<>>]
Garbage == [fmt |-> "garbage", user_id |-> 0, exp |-> 0, sig |-> <<>>]

\* jose.jwt.encode(claims, key, algorithm)
jwt_encode(user_id, exp, key) ==
    [fmt |-> "jwt", user_id |-> user_id, exp |-> exp,
     sig |-> HS256(key, user_id, exp)]

\* main.create_access_token({"user_id": uid}) at time t
create_access_token(user_id, t) ==
    jwt_encode(user_id, t + ExpireSeconds, SECRET_KEY)

\* a decode that reads the payload without testing the signature
jwt_decode_unverified(token, key, t) ==
    IF token.fmt # "jwt" THEN [ok |-> FALSE, err |-> "JWTError", user_id |-> 0]
    ELSE IF token.exp < t
         THEN [ok |-> FALSE, err |-> "ExpiredSignatureError", user_id |-> 0]
    ELSE [ok |-> TRUE, err |-> "", user_id |-> token.user_id]

\* jose.jwt.decode: "ok" with the payload, or the JWTError it raises.
\* The expiry check of the library is  exp < now  =>  ExpiredSignatureError.
jwt_decode(token, key, t) ==
    IF token.fmt # "jwt" THEN [ok |-> FALSE, err |-> "JWTError", user_id |-> 0]
    ELSE IF token.sig # HS256(key, token.user_id, token.exp)
         THEN [ok |-> FALSE, err |-> "JWTError", user_id |-> 0]
    ELSE IF token.exp < t
         THEN [ok |-> FALSE, err |-> "ExpiredSignatureError", user_id |-> 0]
    ELSE [ok |-> TRUE, err |-> "", user_id |-> token.user_id]

\* utils.auth.verify_token: the payload's user_id, or 0 for None
verify_token(token, t) ==
    IF token.fmt = "empty" THEN 0
    ELSE LET d == jwt_decode(token, SECRET_KEY, t)
         IN  IF d.ok THEN d.user_id ELSE 0

\* ------------------------------------------------------- Session Boundary
NoHeader == [scheme |-> "", cred |-> NoToken]
Bearer(tok) == [scheme |-> "bearer", cred |-> tok]

\* get_current_user_id trying the bearer header whenever the cookie yields no
\* user
get_current_user_id_merging(req, t) ==
    LET by_cookie == verify_token(req.cookie, t)
    IN  IF by_cookie # 0 THEN by_cookie
        ELSE IF req.header.scheme = "bearer" THEN verify_token(req.header.cred, t)
        ELSE 0

\* utils.auth.get_current_user_id: 0 stands for None
get_current_user_id(req, t) ==
    LET cookie_token == req.cookie
        token == IF cookie_token.fmt # "empty" THEN cookie_token
                 ELSE IF req.header.scheme = "bearer" THEN req.header.cred
                 ELSE NoToken
    IN  IF token.fmt = "empty" THEN 0 ELSE verify_token(token, t)

\* ------------------------------------------------------------ the tables
\* models.User (name, picture and created_at are written once and never read)
UserRow(id, google_id, email) ==
    [id |-> id, google_id |-> google_id, email |-> email]

\* models.Article with its column defaults
ArticleRow(id, title, content, cover_image, author_id, created_at, updated_at) ==
    [id |-> id, title |-> title, content |-> content,
     cover_image |-> cover_image, views |-> 0, likes |-> 0,
     last_viewed_at |-> NoTime, updated_at |-> updated_at,
     created_at |-> created_at, author_id |-> author_id]

\* session.get(Article, article_id): the row, or None
HasArticle(article_id) == article_id \in 1..Len(articles)

\* the UPDATE a flush emits: the assigned attributes whose value differs from
\* the loaded one
Dirty(row, assigned) ==
    [f \in {g \in DOMAIN assigned : assigned[g] # row[g]} |-> assigned[f]]

\* an UPDATE that sets the counters and the texts and leaves the timestamps
ApplySet_torn(row, set) ==
    [f \in DOMAIN row |->
        IF f \in DOMAIN set /\ f \notin {"last_viewed_at", "updated_at"}
        THEN set[f] ELSE row[f]]

\* UPDATE article SET <set> WHERE id = <id>
ApplySet(row, set) ==
    [f \in DOMAIN row |-> IF f \in DOMAIN set THEN set[f] ELSE row[f]]

\* ---------------------------------------------------------------- routing
NumStr == <<"1", "2", "3", "4", "5", "6", "7", "8", "9", "10", "11", "12">>

IsInt(s) == \E i \in 1..Len(NumStr) : NumStr[i] = s

\* int(s) of the path parameter conversion
ParseInt(s) == CHOOSE i \in 1..Len(NumStr) : NumStr[i] = s

\* the routes of articles.router in the order the decorators register them
Routes == <<
    [method |-> "GET",  pattern |-> <<"me", "all">>,            endpoint |-> "get_my_articles"],
    [method |-> "POST", pattern |-> <<>>,                       endpoint |-> "create_article"],
    [method |-> "GET",  pattern |-> <<"{article_id}">>,         endpoint |-> "get_article"],
    [method |-> "GET",  pattern |-> <<"trending">>,             endpoint |-> "get_trending_articles"],
    [method |-> "POST", pattern |-> <<"{article_id}", "like">>, endpoint |-> "like_article"],
    [method |-> "PUT",  pattern |-> <<"{article_id}">>,         endpoint |-> "update_article"] >>

\* a path parameter matches any one segment
PathMatches(pattern, path) ==
    /\ Len(pattern) = Len(path)
    /\ \A i \in 1..Len(pattern) :
          pattern[i] = "{article_id}" \/ pattern[i] = path[i]

\* the router takes the first route whose path and method match; a path that
\* matches only with another method is answered 405, no match at all 404
Dispatch(method, path) ==
    LET full == {i \in 1..Len(Routes) :
                    PathMatches(Routes[i].pattern, path) /\ Routes[i].method = method}
        partial == {i \in 1..Len(Routes) : PathMatches(Routes[i].pattern, path)}
    IN  IF full # {}
        THEN Routes[CHOOSE i \in full : \A j \in full : i <= j].endpoint
        ELSE IF partial # {} THEN "405" ELSE "404"

\* the endpoints that declare  article_id: int
TakesId == {"get_article", "like_article", "update_article"}

\* ---------------------------------------------------------------- trending
\* ORDER BY views DESC, likes DESC, created_at DESC: a sorts strictly before b
RanksBefore(a, b) ==
    \/ a.views > b.views
    \/ a.views = b.views /\ a.likes > b.likes
    \/ a.views = b.views /\ a.likes = b.likes /\ a.created_at > b.created_at

SameRank(a, b) == ~RanksBefore(a, b) /\ ~RanksBefore(b, a)

\* the order of rows the ORDER BY leaves tied is the store's choice: by id,
\* ascending or descending
First(ids, tie) ==
    CHOOSE i \in ids : \A j \in ids \ {i} :
        \/ RanksBefore(articles[i], articles[j])
        \/ /\ SameRank(articles[i], articles[j])
           /\ IF tie = "asc" THEN i < j ELSE i > j

RECURSIVE Ordered(_, _)
Ordered(ids, tie) ==
    IF ids = {} THEN <<>>
    ELSE LET h == First(ids, tie)
         IN  <<articles[h]>> \o Ordered(ids \ {h}, tie)

\* the statement without its .limit(10)
LimitOff(seq, n) == seq

\* .limit(n)
Limit(seq, n) == SubSeq(seq, 1, IF Len(seq) < n THEN Len(seq) ELSE n)

\* the statement of get_trending_articles
Trending(tie) == Limit(Ordered(1..Len(articles), tie), TrendingLimit)

\* --------------------------------------------------------------- requests
NoBody == [title |-> None, content |-> None, cover_image |-> None]
NoUserinfo == [error |-> FALSE, sub |-> None, email |-> None]

Req(method, path, cookie, header, body) ==
    [method |-> method, path |-> path, cookie |-> cookie, header |-> header,
     body |-> body, oauth |-> NoUserinfo]

NoRequest == Req("", <<>>, NoToken, NoHeader, NoBody)

NoArticle == ArticleRow(0, None, None, None, 0, NoTime, NoTime)
NoUser == UserRow(0, None, None)

\* a response: the status, the endpoint that produced it ("" for the
\* router's own answers) and the parts of the body and headers
Resp(status, endpoint) ==
    [status |-> status, endpoint |-> endpoint, article |-> NoArticle,
     rows |-> <<>>, likes |-> 0, user |-> NoUser, set_cookie |-> NoToken]

NoResponse == Resp(0, "")

NoLocal == [endpoint |-> "", id |-> 0, set |-> <<>>]

\* not x, for an Optional[str]
Falsy(x) == x = None \/ x = ""

\* what a client can put into a request -------------------------------------
\* a credential whose payload was edited after signing
TamperUser(c) == [c EXCEPT !.user_id = IF @ = 1 THEN 2 ELSE 1]
TamperExp(c) == [c EXCEPT !.exp = @ + ExpireSeconds]
\* a credential signed with a key that is not the server's
Forge(c) == jwt_encode(c.user_id, c.exp, OtherKey)

\* the (cookie, Authorization header) pairs of the requests
Cookies ==
    {NoToken, Garbage} \cup minted
        \cup {TamperUser(c) : c \in minted} \cup {TamperExp(c) : c \in minted}
        \cup {Forge(c) : c \in minted}

Headers ==
    {NoHeader} \cup {Bearer(c) : c \in minted}
        \cup {[scheme |-> "basic", cred |-> c] : c \in minted}

\* every combination of a cookie and a header
AllAuths == Cookies \X Headers

\* no credential, a credential in the cookie, a credential in the header
SomeAuths ==
         {<<c, NoHeader>> : c \in {NoToken, Garbage} \cup minted}
    \cup {<<TamperUser(c), NoHeader>> : c \in {m \in minted : now < m.exp}}
    \cup {<<NoToken, Bearer(c)>> : c \in minted}

Anonymous == {<<NoToken, NoHeader>>, <<Garbage, NoHeader>>}

GoogleIds == {"g1", "g2"}
Emails == {"e1", "e2"}

CreateBodies ==
    { [title |-> "t1", content |-> "c1", cover_image |-> "img"],
      [title |-> "t2", content |-> "c2", cover_image |-> None],
      [title |-> "", content |-> "c1", cover_image |-> None],
      [title |-> "t1", content |-> None, cover_image |-> "img"] }

UpdateBodies ==
    { [title |-> "t1", content |-> "c2", cover_image |-> None],
      [title |-> None, content |-> "c1", cover_image |-> None],
      [title |-> "t2", content |-> "", cover_image |-> None] }

IdSegs == {NumStr[i] : i \in 1..(MaxArticles + 1)}

\* ------------------------------------------------------------------- steps
NoPending == \A q \in Proc : pc[q] # "done"

\* the handler returns or raises: the response goes out
Finish(p, resp) ==
    /\ pc' = [pc EXCEPT ![p] = "done"]
    /\ response' = [response EXCEPT ![p] = resp]
    /\ local' = [local EXCEPT ![p] = NoLocal]

\* the handler waits for the database at its next statement
Suspend(p, step, loc) ==
    /\ pc' = [pc EXCEPT ![p] = step]
    /\ local' = [local EXCEPT ![p] = loc]
    /\ UNCHANGED response

\* a free task takes the request (the tasks are interchangeable: the first
\* free one)
Accept(p, req) ==
    /\ app = "serving"
    /\ pc[p] = "idle"
    /\ \A q \in Proc : q < p => pc[q] # "idle"
    /\ NoPending
    /\ request' = [request EXCEPT ![p] = req]
    /\ alone' = [q \in Proc |->
                    IF q = p THEN \A r \in Proc \ {p} : pc[r] = "idle"
                    ELSE IF pc[q] # "idle" THEN FALSE ELSE alone[q]]
    /\ UNCHANGED <<env, app>>

Raise(p, status, endpoint) ==
    /\ Finish(p, Resp(status, endpoint))
    /\ UNCHANGED <<users, articles, minted>>

\* the rows a SELECT without ORDER BY returns: the order is the store's
\* choice (SQLite scans by rowid; PostgreSQL scans the heap, where an UPDATE
\* moves a row), here by id, ascending or descending
RECURSIVE Scan(_, _)
Scan(ids, tie) ==
    IF ids = {} THEN <<>>
    ELSE LET h == CHOOSE i \in ids : \A j \in ids \ {i} :
                      IF tie = "asc" THEN i < j ELSE i > j
         IN  <<articles[h]>> \o Scan(ids \ {h}, tie)

\* articles.get_my_articles
get_my_articles(p, req) ==
    LET user_id == get_current_user_id(req, now)
    IN  IF user_id = 0 THEN Raise(p, 401, "get_my_articles")
        ELSE \E tie \in {"asc", "desc"} :
             /\ Finish(p, [Resp(200, "get_my_articles") EXCEPT
                    !.rows = Scan({a \in 1..Len(articles) :
                                      articles[a].author_id = user_id}, tie)])
             /\ UNCHANGED <<users, articles, minted>>

\* create_article with the test of title and content left out
create_article_unvalidated(p, req) ==
    LET user_id == get_current_user_id(req, now)
        article == ArticleRow(Len(articles) + 1, req.body.title, req.body.content,
                              req.body.cover_image, user_id, now, now)
    IN  IF user_id = 0 THEN Raise(p, 401, "create_article")
        ELSE /\ Len(articles) < MaxArticles
             /\ articles' = Append(articles, article)
             /\ Finish(p, [Resp(200, "create_article") EXCEPT !.article = article])
             /\ UNCHANGED <<users, minted>>

\* articles.create_article
create_article(p, req) ==
    LET user_id == get_current_user_id(req, now)
        title == req.body.title
        content == req.body.content
        cover_image == req.body.cover_image
        article == ArticleRow(Len(articles) + 1, title, content, cover_image,
                              user_id, now, now)
    IN  IF user_id = 0 THEN Raise(p, 401, "create_article")
        ELSE IF Falsy(title) \/ Falsy(content) THEN Raise(p, 400, "create_article")
        ELSE /\ Len(articles) < MaxArticles
             /\ articles' = Append(articles, article)
             /\ Finish(p, [Resp(200, "create_article") EXCEPT !.article = article])
             /\ UNCHANGED <<users, minted>>

\* get_article with the increment of views left out
get_article_no_count(p, article_id) ==
    IF ~HasArticle(article_id) THEN Raise(p, 404, "get_article")
    ELSE LET article == articles[article_id]
         IN  /\ article.views < MaxCount
             /\ Suspend(p, "commit",
                    [endpoint |-> "get_article", id |-> article_id,
                     set |-> Dirty(article, [last_viewed_at |-> now])])
             /\ UNCHANGED <<users, articles, minted>>

\* articles.get_article, up to the commit
get_article(p, article_id) ==
    IF ~HasArticle(article_id) THEN Raise(p, 404, "get_article")
    ELSE LET article == articles[article_id]
         IN  /\ article.views < MaxCount
             /\ Suspend(p, "commit",
                    [endpoint |-> "get_article", id |-> article_id,
                     set |-> Dirty(article, [views |-> article.views + 1,
                                             last_viewed_at |-> now])])
             /\ UNCHANGED <<users, articles, minted>>

\* like_article answering a missing article with success instead of 404
like_article_silent(p, article_id) ==
    IF ~HasArticle(article_id)
    THEN /\ Finish(p, Resp(200, "like_article"))
         /\ UNCHANGED <<users, articles, minted>>
    ELSE LET article == articles[article_id]
         IN  /\ article.likes < MaxCount
             /\ Suspend(p, "commit",
                    [endpoint |-> "like_article", id |-> article_id,
                     set |-> Dirty(article, [likes |-> article.likes + 1])])
             /\ UNCHANGED <<users, articles, minted>>

\* like_article refreshing updated_at as an edit does
like_article_touch(p, article_id) ==
    IF ~HasArticle(article_id) THEN Raise(p, 404, "like_article")
    ELSE LET article == articles[article_id]
         IN  /\ article.likes < MaxCount
             /\ Suspend(p, "commit",
                    [endpoint |-> "like_article", id |-> article_id,
                     set |-> Dirty(article, [likes |-> article.likes + 1,
                                             updated_at |-> now])])
             /\ UNCHANGED <<users, articles, minted>>

\* articles.like_article, up to the commit
like_article(p, article_id) ==
    IF ~HasArticle(article_id) THEN Raise(p, 404, "like_article")
    ELSE LET article == articles[article_id]
         IN  /\ article.likes < MaxCount
             /\ Suspend(p, "commit",
                    [endpoint |-> "like_article", id |-> article_id,
                     set |-> Dirty(article, [likes |-> article.likes + 1])])
             /\ UNCHANGED <<users, articles, minted>>

\* update_article with the comparison of author_id and user_id left out
update_article_any_user(p, req, article_id) ==
    LET user_id == get_current_user_id(req, now)
        title == req.body.title
        content == req.body.content
    IN  IF user_id = 0 THEN Raise(p, 401, "update_article")
        ELSE IF ~HasArticle(article_id) THEN Raise(p, 404, "update_article")
        ELSE IF Falsy(title) \/ Falsy(content) THEN Raise(p, 400, "update_article")
        ELSE /\ Suspend(p, "commit",
                    [endpoint |-> "update_article", id |-> article_id,
                     set |-> Dirty(articles[article_id],
                                   [title |-> title, content |-> content,
                                    updated_at |-> now])])
             /\ UNCHANGED <<users, articles, minted>>

\* articles.update_article, up to the commit
update_article(p, req, article_id) ==
    LET user_id == get_current_user_id(req, now)
        title == req.body.title
        content == req.body.content
    IN  IF user_id = 0 THEN Raise(p, 401, "update_article")
        ELSE IF ~HasArticle(article_id) THEN Raise(p, 404, "update_article")
        ELSE IF articles[article_id].author_id # user_id
             THEN Raise(p, 403, "update_article")
        ELSE IF Falsy(title) \/ Falsy(content) THEN Raise(p, 400, "update_article")
        ELSE /\ Suspend(p, "commit",
                    [endpoint |-> "update_article", id |-> article_id,
                     set |-> Dirty(articles[article_id],
                                   [title |-> title, content |-> content,
                                    updated_at |-> now])])
             /\ UNCHANGED <<users, articles, minted>>

\* articles.get_trending_articles
get_trending_articles(p) ==
    \E tie \in {"asc", "desc"} :
        /\ Finish(p, [Resp(200, "get_trending_articles") EXCEPT !.rows = Trending(tie)])
        /\ UNCHANGED <<users, articles, minted>>

\* the router hands the request to the endpoint it selects; an article_id
\* that is not an integer is answered 422 before the endpoint runs
Serve(p, req) ==
    LET endpoint == Dispatch(req.method, req.path)
    IN  IF endpoint \in {"404", "405"}
        THEN Raise(p, IF endpoint = "404" THEN 404 ELSE 405, "")
        ELSE IF endpoint \in TakesId /\ ~IsInt(req.path[1])
        THEN Raise(p, 422, endpoint)
        ELSE CASE endpoint = "get_my_articles" -> get_my_articles(p, req)
               [] endpoint = "create_article" -> create_article(p, req)
               [] endpoint = "get_article" -> get_article(p, ParseInt(req.path[1]))
               [] endpoint = "get_trending_articles" -> get_trending_articles(p)
               [] endpoint = "like_article" -> like_article(p, ParseInt(req.path[1]))
               [] endpoint = "update_article" ->
                      update_article(p, req, ParseInt(req.path[1]))

\* a request to /articles/... (the path is kept relative to the prefix)
\* arrives and runs to its first wait or its end
Take(p, req) ==
    /\ Accept(p, req)
    /\ Serve(p, req)
    /\ UNCHANGED <<now, cleared>>

\* the requests of the article API
Receive(p) ==
    \/ \E a \in SomeAuths : Take(p, Req("GET", <<"me", "all">>, a[1], a[2], NoBody))
    \/ \E a \in SomeAuths, b \in CreateBodies :
          Take(p, Req("POST", <<>>, a[1], a[2], b))
    \/ \E s \in IdSegs \cup {"trending"}, a \in Anonymous :
          Take(p, Req("GET", <<s>>, a[1], a[2], NoBody))
    \/ \E s \in IdSegs, a \in Anonymous :
          Take(p, Req("POST", <<s, "like">>, a[1], a[2], NoBody))
    \/ \E s \in IdSegs, a \in SomeAuths, b \in UpdateBodies :
          Take(p, Req("PUT", <<s>>, a[1], a[2], b))

\* session.commit() and session.refresh(article) of get, like and update
Commit(p) ==
    /\ pc[p] = "commit"
    /\ NoPending
    /\ LET id == local[p].id
           endpoint == local[p].endpoint
           row == ApplySet(articles[id], local[p].set)
       IN  /\ articles' = [articles EXCEPT ![id] = row]
           /\ Finish(p, [Resp(200, endpoint) EXCEPT
                            !.article = row, !.likes = row.likes])
    /\ UNCHANGED <<users, now, minted, request, alone, env, app, cleared>>

\* the request is given up while the handler waits for its commit: the
\* session is closed without a commit, nothing is sent (status 0)
Abandon(p) ==
    /\ pc[p] = "commit"
    /\ NoPending
    /\ Finish(p, Resp(0, local[p].endpoint))
    /\ UNCHANGED <<users, articles, now, minted, request, alone, env, app, cleared>>

\* ------------------------------------------------------------------ login
\* what the OAuth exchange hands to the callback: an OAuthError, or the
\* provider's userinfo
OAuthResults ==
    {[error |-> TRUE, sub |-> None, email |-> None]}
        \cup {[error |-> FALSE, sub |-> g, email |-> e] :
                 g \in GoogleIds \cup {None}, e \in Emails}

\* the lookup finding no row, whatever the table holds
UsersByGoogleId_none(google_id) == {}

\* select(User).where(User.google_id == google_id)
UsersByGoogleId(google_id) ==
    {i \in 1..Len(users) : users[i].google_id = google_id}

LoginsInFlight == Cardinality({q \in Proc : pc[q] = "insert"})

\* the callback answers with the redirect that sets the cookie
Redirect(p, user, t) ==
    LET access_token == create_access_token(user.id, t)
    IN  /\ minted' = minted \cup {access_token}
        /\ Finish(p, [Resp(307, "google_callback") EXCEPT
                         !.user = user, !.set_cookie = access_token])

\* main.google_callback, up to the commit of a new user
GoogleCallback(p) ==
    \E info \in OAuthResults :
        /\ Accept(p, [Req("GET", <<"auth", "google", "callback">>,
                          NoToken, NoHeader, NoBody) EXCEPT !.oauth = info])
        /\ IF info.error \/ Falsy(info.sub)
           THEN Raise(p, 400, "google_callback")
           ELSE LET found == UsersByGoogleId(info.sub)
                IN  IF found # {}
                    THEN \E i \in found :
                            /\ \/ create_access_token(users[i].id, now) \in minted
                               \/ Cardinality(minted) + LoginsInFlight < MaxLogins
                            /\ Redirect(p, users[i], now)
                            /\ UNCHANGED <<users, articles>>
                    ELSE /\ Cardinality(minted) + LoginsInFlight < MaxLogins
                         /\ Suspend(p, "insert",
                                [endpoint |-> "google_callback", id |-> 0,
                                 set |-> [google_id |-> info.sub,
                                          email |-> info.email]])
                         /\ UNCHANGED <<users, articles, minted>>
        /\ UNCHANGED <<now, cleared>>

\* session.add(user); session.commit(); session.refresh(user) and the rest
\* of main.google_callback
InsertUser(p) ==
    /\ pc[p] = "insert"
    /\ NoPending
    /\ LET user == UserRow(Len(users) + 1, local[p].set.google_id,
                           local[p].set.email)
       IN  /\ users' = Append(users, user)
           /\ Redirect(p, user, now)
    /\ UNCHANGED <<articles, now, request, alone, env, app, cleared>>

\* main.verify_token: no test for an empty token, the caller makes it
main_verify_token(token, t) ==
    LET d == jwt_decode(token, SECRET_KEY, t)
    IN  IF d.ok THEN d.user_id ELSE 0

\* main.auth_me
AuthMe(p) ==
    \E c \in Cookies :
        /\ Accept(p, Req("GET", <<"auth", "me">>, c, NoHeader, NoBody))
        /\ LET user_id == IF c.fmt = "empty" THEN 0 ELSE main_verify_token(c, now)
           IN  Finish(p, [Resp(200, "auth_me") EXCEPT
                   !.user = IF user_id \in 1..Len(users)
                            THEN users[user_id] ELSE NoUser])
        /\ UNCHANGED <<users, articles, now, minted, cleared>>

\* logout withdrawing the credential of its cookie on the server
Logout_revoking(p) ==
    \E c \in Cookies :
        /\ Accept(p, Req("POST", <<"auth", "logout">>, c, NoHeader, NoBody))
        /\ Finish(p, Resp(200, "logout"))
        /\ cleared' = IF c \in minted THEN cleared \cup {c} ELSE cleared
        /\ minted' = minted \ {c}
        /\ UNCHANGED <<users, articles, now>>

\* main.logout: the response asks the browser to drop the cookie
Logout(p) ==
    \E c \in Cookies :
        /\ Accept(p, Req("POST", <<"auth", "logout">>, c, NoHeader, NoBody))
        /\ Finish(p, Resp(200, "logout"))
        /\ cleared' = IF c \in minted THEN cleared \cup {c} ELSE cleared
        /\ UNCHANGED <<users, articles, now, minted>>

\* the client has the response; the task ends
Return(p) ==
    /\ pc[p] = "done"
    /\ pc' = [pc EXCEPT ![p] = "idle"]
    /\ request' = [request EXCEPT ![p] = NoRequest]
    /\ response' = [response EXCEPT ![p] = NoResponse]
    /\ alone' = [alone EXCEPT ![p] = TRUE]
    /\ UNCHANGED <<users, articles, now, minted, local, env, app, cleared>>

\* time passes
Tick ==
    /\ NoPending
    /\ \E t \in Instants : t > now /\ now' = t
    /\ UNCHANGED <<users, articles, minted, pc, request, local, response, alone,
                   env, app, cleared>>

\* ---------------------------------------------------------------- startup
\* the variables the modules read with os.getenv while they are imported
EnvNames == {"DATABASE_URL", "SECRET_KEY", "GOOGLE_CLIENT_ID",
             "GOOGLE_CLIENT_SECRET", "BASE_URL", "FRONTEND_URL"}

\* a variable is unset (None), set to the empty string, or set to a value
EnvValues == {None, "", "value"}

\* os.getenv(name, default)
Getenv(name, default) == IF env[name] = None THEN default ELSE env[name]

\* the module-level configuration of db/session.py and main.py
DATABASE_URL == Getenv("DATABASE_URL", None)
GOOGLE_CLIENT_ID == Getenv("GOOGLE_CLIENT_ID", None)
GOOGLE_CLIENT_SECRET == Getenv("GOOGLE_CLIENT_SECRET", None)
BASE_URL == Getenv("BASE_URL", "https://quillr-backend.onrender.com")
FRONTEND_URL == Getenv("FRONTEND_URL", "https://quillr-frontend-zeta.vercel.app")

\* importing app.main: db/session.py first, then the checks of main.py; a
\* RuntimeError raised by an import ends the process
Startup ==
    /\ app = "loading"
    /\ app' = IF Falsy(DATABASE_URL) THEN "fatal"
              ELSE IF Falsy(Getenv("SECRET_KEY", None)) THEN "fatal"
              ELSE IF Falsy(GOOGLE_CLIENT_ID) \/ Falsy(GOOGLE_CLIENT_SECRET)
                   THEN "fatal"
              ELSE "serving"
    /\ UNCHANGED <<users, articles, now, minted, pc, request, local, response,
                   alone, env, cleared>>

\* the process is up with every variable set
Serving ==
    /\ env = [n \in EnvNames |-> "value"]
    /\ app = "serving"

Blank ==
    /\ Serving
    /\ cleared = {}
    /\ pc = [p \in Proc |-> "idle"]
    /\ request = [p \in Proc |-> NoRequest]
    /\ local = [p \in Proc |-> NoLocal]
    /\ response = [p \in Proc |-> NoResponse]
    /\ alone = [p \in Proc |-> TRUE]

\* ------------------------------------------------ the article store served
\* Two users have logged in, the first at second 2, the second at seconds 0,
\* 1 and 2.  It is now one second after the exp of the oldest credential.
LoggedIn ==
    /\ users = <<UserRow(1, "g1", "e1"), UserRow(2, "g2", "e2")>>
    /\ now = ExpireSeconds + 1
    /\ minted = {create_access_token(1, 2), create_access_token(2, 0),
                 create_access_token(2, 1), create_access_token(2, 2)}

Init ==
    /\ LoggedIn
    /\ articles = <<>>
    /\ Blank

Next ==
    \/ \E p \in Proc : Receive(p)
    \/ \E p \in Proc : Commit(p)
    \/ \E p \in Proc : Return(p)

Spec == Init /\ [][Next]_vars

\* ------------------------------------------------------- login, concurrent
\* SQLModel.metadata.create_all(engine) on an empty database
InitEmpty ==
    /\ users = <<>>
    /\ articles = <<>>
    /\ now = 0
    /\ minted = {}
    /\ Blank

NextLogin ==
    \/ \E p \in Proc : GoogleCallback(p)
    \/ \E p \in Proc : InsertUser(p)
    \/ \E p \in Proc : Return(p)

SpecLogin == InitEmpty /\ [][NextLogin]_vars

\* ------------------------------------- the session boundary, over the days
\* one request at a time
Sequential == \A q \in Proc : pc[q] = "idle"

\* the requests that only pass the session boundary
ReceiveSession(p) ==
    \E a \in AllAuths : Take(p, Req("GET", <<"me", "all">>, a[1], a[2], NoBody))

NextSession ==
    \/ \E p \in Proc : Sequential /\ GoogleCallback(p)
    \/ \E p \in Proc : InsertUser(p)
    \/ \E p \in Proc : Sequential /\ ReceiveSession(p)
    \/ \E p \in Proc : Sequential /\ AuthMe(p)
    \/ \E p \in Proc : Sequential /\ Logout(p)
    \/ \E p \in Proc : Return(p)
    \/ Tick

SpecSession == InitEmpty /\ [][NextSession]_vars

\* --------------------------------------- from the first login to articles
\* the requests that create articles
ReceiveCreate(p) ==
    \E a \in SomeAuths, b \in CreateBodies :
        Take(p, Req("POST", <<>>, a[1], a[2], b))

NextLife ==
    \/ \E p \in Proc : GoogleCallback(p)
    \/ \E p \in Proc : InsertUser(p)
    \/ \E p \in Proc : ReceiveCreate(p)
    \/ \E p \in Proc : Return(p)

SpecLife == InitEmpty /\ [][NextLife]_vars

\* ------------------------------ an article of an earlier day, and requests
\* that may be given up
\* the article user 1 created at second 2
Earlier == <<ArticleRow(1, "t2", "c2", "img", 1, 2, 2)>>

InitEdit ==
    /\ LoggedIn
    /\ articles \in {<<>>, Earlier}
    /\ Blank

NextEdit ==
    \/ \E p \in Proc : Receive(p)
    \/ \E p \in Proc : Commit(p)
    \/ \E p \in Proc : Abandon(p)
    \/ \E p \in Proc : Return(p)

SpecEdit == InitEdit /\ [][NextEdit]_vars

\* ------------------------------------------------- the process starting
\* any environment
InitStartup ==
    /\ env \in [EnvNames -> EnvValues]
    /\ app = "loading"
    /\ users = <<>>
    /\ articles = <<>>
    /\ now = 0
    /\ minted = {}
    /\ cleared = {}
    /\ pc = [p \in Proc |-> "idle"]
    /\ request = [p \in Proc |-> NoRequest]
    /\ local = [p \in Proc |-> NoLocal]
    /\ response = [p \in Proc |-> NoResponse]
    /\ alone = [p \in Proc |-> TRUE]

NextStartup ==
    \/ Startup
    \/ \E p \in Proc : AuthMe(p)
    \/ \E p \in Proc : Logout(p)
    \/ \E p \in Proc : Return(p)

SpecStartup == InitStartup /\ [][NextStartup]_vars

\* ------------------------------ the session boundary, cookies and headers
\* each of the two users has created an article
TwoAuthors ==
    <<ArticleRow(1, "t1", "c1", None, 1, 2, 2),
      ArticleRow(2, "t2", "c2", "img", 2, 2, 2)>>

InitBoundary ==
    /\ LoggedIn
    /\ articles = TwoAuthors
    /\ Blank

NextBoundary ==
    \/ \E p \in Proc : ReceiveSession(p)
    \/ \E p \in Proc : Return(p)

SpecBoundary == InitBoundary /\ [][NextBoundary]_vars

\* ------------------------------------------- the articles of one author
\* user 1 has created two articles, and user 2 one in between
ThreeArticles ==
    <<ArticleRow(1, "t1", "c1", None, 1, 2, 2),
      [ArticleRow(2, "t2", "c2", "img", 2, 2, 2) EXCEPT !.views = 1,
                                                        !.last_viewed_at = 2],
      ArticleRow(3, "t2", "c1", None, 1, 2, 2)>>

InitList ==
    /\ LoggedIn
    /\ articles = ThreeArticles
    /\ Blank

NextList ==
    \/ \E p \in Proc : ReceiveSession(p)
    \/ \E p \in Proc : Return(p)

SpecList == InitList /\ [][NextList]_vars

\* ------------------------------------- the trending query on larger stores
\* a store of n articles: views cycle with period 3, likes change every second
\* row, created_at grows every third row
Store(n, a, b, c) ==
    [i \in 1..n |->
        [ArticleRow(i, "t1", "c1", None, 1, (c * i) \div 3, (c * i) \div 3)
            EXCEPT !.views = (a * i) % 3, !.likes = (b * (i \div 2)) % 2]]

InitTrending ==
    /\ LoggedIn
    /\ \E n \in 0..MaxStore, a \in 0..2, b \in 0..1, c \in 0..1 :
          articles = Store(n, a, b, c)
    /\ Blank

\* the endpoint function, called on the store as it is
CallTrending(p) ==
    /\ Accept(p, Req("GET", <<"trending">>, NoToken, NoHeader, NoBody))
    /\ get_trending_articles(p)
    /\ UNCHANGED <<now, cleared>>

NextTrending ==
    \/ \E p \in Proc : CallTrending(p)
    \/ \E p \in Proc : Return(p)

SpecTrending == InitTrending /\ [][NextTrending]_vars

\* ================================================================== claims
\* task p takes a request in this step
Starts(p) == pc[p] = "idle" /\ pc'[p] # "idle"

\* task p commits the write of the named endpoint in this step
Commits(p, endpoint) ==
    pc[p] = "commit" /\ local[p].endpoint = endpoint /\ pc'[p] = "done"

\* the credential a request presents: the cookie, else the bearer header
Presented(req) ==
    IF req.cookie.fmt # "empty" THEN req.cookie
    ELSE IF req.header.scheme = "bearer" THEN req.header.cred
    ELSE NoToken

\* a credential as the login flow minted it, presented before its exp
Fresh(c) == c \in minted /\ now < c.exp

\* the request names an article by its integer id
OnArticle(req, method, rest) ==
    /\ req.method = method
    /\ Len(req.path) = 1 + Len(rest)
    /\ SubSeq(req.path, 2, Len(req.path)) = rest
    /\ IsInt(req.path[1])

\* C1: every like request that completes raises the stored likes of its
\* article by exactly one, so N concurrent likes raise it by N (no like is
\* lost).
C1_NoLostLike ==
    [][\A p \in Proc :
          Commits(p, "like_article") =>
              articles'[local[p].id].likes = articles[local[p].id].likes + 1]_vars

\* C2: the user table never holds two rows with the same google_id, however
\* the lookups and inserts of concurrent login callbacks interleave, and two
\* callbacks answered side by side for one google_id carry the same user.
C2_OneUserPerGoogleId ==
    /\ \A g \in GoogleIds : Cardinality(UsersByGoogleId(g)) <= 1
    /\ \A p, q \in Proc :
          (/\ pc[p] = "done" /\ pc[q] = "done"
           /\ response[p].status = 307 /\ response[q].status = 307
           /\ request[p].oauth.sub = request[q].oauth.sub)
              => response[p].set_cookie.user_id = response[q].set_cookie.user_id

\* C3: an update of an existing article by an authenticated user who is not
\* its author is answered 403 at once, whatever the body, and the store is
\* left as it was.
C3_NonAuthorUpdateForbidden ==
    [][\A p \in Proc :
          (/\ Starts(p)
           /\ OnArticle(request'[p], "PUT", <<>>)
           /\ HasArticle(ParseInt(request'[p].path[1]))
           /\ Fresh(Presented(request'[p]))
           /\ Presented(request'[p]).user_id
                 # articles[ParseInt(request'[p].path[1])].author_id)
              => /\ pc'[p] = "done"
                 /\ response'[p].status = 403
                 /\ articles' = articles]_vars

\* a non-author has sent a body that the author could have sent, and got 403
C3_Witness ==
    \E p \in Proc :
        /\ pc[p] = "done"
        /\ response[p].status = 403
        /\ response[p].endpoint = "update_article"
        /\ ~Falsy(request[p].body.title) /\ ~Falsy(request[p].body.content)
        /\ Len(articles) > 0

\* C4: a request that presents a cookie is let through the session boundary
\* exactly when the cookie is a credential as the login flow minted it and
\* the time is before its exp (mint time plus 7 days); every other cookie,
\* malformed, edited, signed with another key or expired, is answered 401.
C4_ValidIffBeforeExp ==
    \A p \in Proc :
        (/\ pc[p] = "done"
         /\ response[p].endpoint = "get_my_articles"
         /\ request[p].cookie.fmt # "empty")
            => /\ response[p].status \in {200, 401}
               /\ response[p].status = 200 <=> Fresh(request[p].cookie)

\* C5: no step lowers the stored views or likes of an article, and both are
\* never negative.
C5_CountersNeverDecrease ==
    [][\A a \in 1..Len(articles) :
          /\ articles'[a].views >= articles[a].views
          /\ articles'[a].likes >= articles[a].likes
          /\ articles'[a].views >= 0
          /\ articles'[a].likes >= 0]_vars

\* C6: a create with non-empty title and content by an authenticated caller
\* stores a row with views = 0, likes = 0, the caller as author and the
\* title and content sent; a get that runs with no other request beside it
\* answers with the stored title and content and with views one higher than
\* stored before, and stores that count.
C6_CreateThenGet ==
    [][\A p \in Proc :
          /\ (/\ Starts(p)
              /\ request'[p].method = "POST" /\ request'[p].path = <<>>
              /\ Fresh(Presented(request'[p]))
              /\ ~Falsy(request'[p].body.title)
              /\ ~Falsy(request'[p].body.content))
                 => /\ pc'[p] = "done"
                    /\ response'[p].status = 200
                    /\ Len(articles') = Len(articles) + 1
                    /\ SubSeq(articles', 1, Len(articles)) = articles
                    /\ LET new == articles'[Len(articles')]
                       IN  /\ new.views = 0 /\ new.likes = 0
                           /\ new.author_id = Presented(request'[p]).user_id
                           /\ new.title = request'[p].body.title
                           /\ new.content = request'[p].body.content
                           /\ response'[p].article = new
          /\ (Commits(p, "get_article") /\ alone[p])
                 => LET before == articles[local[p].id]
                        got == response'[p].article
                    IN  /\ response'[p].status = 200
                        /\ got.views = before.views + 1
                        /\ got.title = before.title
                        /\ got.content = before.content
                        /\ articles'[local[p].id].views = before.views + 1]_vars

\* the first get after a create, run alone, has answered with views = 1
C6_Witness ==
    \E p \in Proc :
        /\ pc[p] = "done"
        /\ alone[p]
        /\ response[p].endpoint = "get_article"
        /\ response[p].status = 200
        /\ response[p].article.views = 1
        /\ response[p].article.title = "t2"

\* C7: GET /articles/trending is answered by get_trending_articles with the
\* ranked list (status 200).
C7_TrendingIsRouted ==
    \A p \in Proc :
        (/\ pc[p] = "done"
         /\ request[p].method = "GET"
         /\ request[p].path = <<"trending">>)
            => /\ response[p].endpoint = "get_trending_articles"
               /\ response[p].status = 200

\* C8: the trending query answers with min(10, number of articles) distinct
\* rows of the store, ordered by views, then likes, then created_at, all
\* descending, no row left out ranking before a row returned; the store is
\* left as it was.
C8_TrendingTopTen ==
    [][\A p \in Proc :
          (Starts(p) /\ response'[p].endpoint = "get_trending_articles")
              => LET rows == response'[p].rows
                     n == Len(articles)
                     shown == {rows[i].id : i \in 1..Len(rows)}
                 IN  /\ articles' = articles /\ users' = users
                     /\ response'[p].status = 200
                     /\ Len(rows) = IF n < 10 THEN n ELSE 10
                     /\ \A i \in 1..Len(rows) :
                           rows[i].id \in 1..n /\ rows[i] = articles[rows[i].id]
                     /\ \A i, j \in 1..Len(rows) :
                           i < j => /\ rows[i].id # rows[j].id
                                    /\ ~RanksBefore(rows[j], rows[i])
                     /\ \A k \in (1..n) \ shown : \A i \in 1..Len(rows) :
                           ~RanksBefore(articles[k], rows[i])]_vars

\* a store of more than ten rows was cut to ten, and a tie on views and likes
\* was decided by created_at
C8_Witness ==
    \E p \in Proc :
        /\ pc[p] = "done"
        /\ response[p].endpoint = "get_trending_articles"
        /\ Len(articles) > 10
        /\ Len(response[p].rows) = 10
        /\ \E i \in 1..9 :
              /\ response[p].rows[i].views = response[p].rows[i + 1].views
              /\ response[p].rows[i].likes = response[p].rows[i + 1].likes
              /\ response[p].rows[i].created_at > response[p].rows[i + 1].created_at
        /\ \E i \in 1..9 : response[p].rows[i].views > response[p].rows[i + 1].views

\* the request is one of create, update, list-my-articles
Protected(req) ==
    \/ req.method = "GET" /\ req.path = <<"me", "all">>
    \/ req.method = "POST" /\ req.path = <<>>
    \/ OnArticle(req, "PUT", <<>>)

\* C9: create, update and list-my-articles without a credential, or with one
\* that fails verification or whose exp has come, are answered 401 and change
\* nothing; get and like of an existing article and trending are not refused
\* to a caller without a valid credential.
C9_AuthRequiredOnlyWhereProtected ==
    [][\A p \in Proc :
          /\ (Starts(p) /\ Protected(request'[p])
                 /\ ~Fresh(Presented(request'[p])))
                 => /\ pc'[p] = "done"
                    /\ response'[p].status = 401
                    /\ articles' = articles /\ users' = users
          /\ (/\ Starts(p)
              /\ ~Fresh(Presented(request'[p]))
              /\ \/ request'[p].method = "GET" /\ request'[p].path = <<"trending">>
                 \/ /\ \/ OnArticle(request'[p], "GET", <<>>)
                       \/ OnArticle(request'[p], "POST", <<"like">>)
                    /\ HasArticle(ParseInt(request'[p].path[1])))
                 => (pc'[p] = "done" => response'[p].status = 200)]_vars

\* C10: get, like and authenticated update of an article id that is not in
\* the store are answered 404 at once and leave both tables as they were.
C10_MissingIdNotFound ==
    [][\A p \in Proc :
          (/\ Starts(p)
           /\ \/ OnArticle(request'[p], "GET", <<>>)
              \/ OnArticle(request'[p], "POST", <<"like">>)
              \/ /\ OnArticle(request'[p], "PUT", <<>>)
                 /\ Fresh(Presented(request'[p]))
           /\ ~HasArticle(ParseInt(request'[p].path[1])))
              => /\ pc'[p] = "done"
                 /\ response'[p].status = 404
                 /\ articles' = articles /\ users' = users]_vars

\* each of get, like and update has been answered 404 while the store held
\* an article
C10_Witness ==
    /\ Len(articles) > 0
    /\ \E p \in Proc :
          /\ pc[p] = "done"
          /\ response[p].status = 404
          /\ response[p].endpoint = "update_article"
          /\ articles[1].views > 0 /\ articles[1].likes > 0

\* the rows of a store all have a title and a content
Titled(store) ==
    \A a \in 1..Len(store) : ~Falsy(store[a].title) /\ ~Falsy(store[a].content)

\* C11: every stored article has a non-empty title and a non-empty content;
\* a create or update whose title or content is missing or empty writes
\* nothing, and is answered 400 once it has passed the checks that come
\* before the validation (credential; for update also existence and author).
C11_NoUntitledArticle ==
    [][/\ Titled(articles) /\ Titled(articles')
       /\ \A p \in Proc :
             (/\ Starts(p)
              /\ \/ request'[p].method = "POST" /\ request'[p].path = <<>>
                 \/ OnArticle(request'[p], "PUT", <<>>)
              /\ Falsy(request'[p].body.title) \/ Falsy(request'[p].body.content))
                 => /\ pc'[p] = "done"
                    /\ articles' = articles
                    /\ response'[p].article = NoArticle
                    /\ (/\ Fresh(Presented(request'[p]))
                        /\ request'[p].method = "PUT"
                               => /\ HasArticle(ParseInt(request'[p].path[1]))
                                  /\ articles[ParseInt(request'[p].path[1])].author_id
                                        = Presented(request'[p]).user_id)
                           => response'[p].status = 400]_vars

\* the author's update with an empty content was answered 400 and the stored
\* article kept its content
C11_Witness ==
    \E p \in Proc :
        /\ pc[p] = "done"
        /\ response[p].status = 400
        /\ response[p].endpoint = "update_article"
        /\ request[p].body.content = ""
        /\ Len(articles) = 1
        /\ articles[1].content # ""

\* the request is a login callback the provider answered with a profile
IsLogin(req) ==
    /\ req.path = <<"auth", "google", "callback">>
    /\ ~req.oauth.error
    /\ ~Falsy(req.oauth.sub)

\* the ids of the user rows with this email
UsersByEmail(email) == {i \in 1..Len(users) : users[i].email = email}

\* C12: a login callback whose google id matches no user row while its email
\* is the email of a user row is answered at once with a credential for
\* that row, and no user row is added.
C12_EmailFallback ==
    [][\A p \in Proc :
          (/\ Starts(p)
           /\ IsLogin(request'[p])
           /\ UsersByGoogleId(request'[p].oauth.sub) = {}
           /\ UsersByEmail(request'[p].oauth.email) # {})
              => /\ pc'[p] = "done"
                 /\ response'[p].status = 307
                 /\ response'[p].set_cookie.user_id
                       \in UsersByEmail(request'[p].oauth.email)
                 /\ users' = users]_vars

\* the answer of list-my-articles to the user a credential verifies as
AnswersAs(p, c) ==
    LET u == verify_token(c, now)
    IN  IF u = 0 THEN response'[p].status = 401
        ELSE /\ response'[p].status = 200
             /\ response'[p].rows = SelectSeq(articles, LAMBDA a : a.author_id = u)

\* C13: a request with a non-empty quillr_token cookie is answered as the
\* cookie alone decides, whatever its Authorization header (an invalid cookie
\* beside a valid bearer credential is answered 401); the bearer credential
\* decides only when there is no cookie; with neither the answer is 401.
C13_CookieFirst ==
    [][\A p \in Proc :
          (/\ Starts(p)
           /\ request'[p].method = "GET" /\ request'[p].path = <<"me", "all">>)
              => /\ pc'[p] = "done"
                 /\ IF request'[p].cookie.fmt # "empty"
                    THEN AnswersAs(p, request'[p].cookie)
                    ELSE IF request'[p].header.scheme = "bearer"
                    THEN AnswersAs(p, request'[p].header.cred)
                    ELSE response'[p].status = 401]_vars

\* a cookie that does not verify beside a bearer credential that does has
\* been answered 401
C13_Witness ==
    \E p \in Proc :
        /\ pc[p] = "done"
        /\ response[p].endpoint = "get_my_articles"
        /\ response[p].status = 401
        /\ request[p].cookie.fmt # "empty"
        /\ request[p].header.scheme = "bearer"
        /\ Fresh(request[p].header.cred)

\* the settings the process must not run without
Required == {"SECRET_KEY", "GOOGLE_CLIENT_ID", "GOOGLE_CLIENT_SECRET",
             "BASE_URL", "FRONTEND_URL"}

\* C14: the process serves only if the signing secret, the provider's client
\* id and secret, the base URL and the frontend URL are all set; with one of
\* them missing the import ends in the fatal state, and a request is taken
\* only by a serving process.
C14_StartupNeedsConfiguration ==
    /\ app = "serving" => \A n \in Required : ~Falsy(env[n])
    /\ (app # "loading" /\ \E n \in Required : Falsy(env[n])) => app = "fatal"
    /\ \A p \in Proc : pc[p] # "idle" => app = "serving"

\* the ids of the rows of a user table that carry this google id
RowsOf(table, g) == {i \in 1..Len(table) : table[i].google_id = g}

\* C15: with login callbacks served one after the other, the user table
\* holds at most one row per google id, every successful callback is
\* answered with a credential for the row of its google id, and no step
\* removes a row or changes one (row i keeps id i), so every later login
\* with that google id is answered with the same user id.
C15_SequentialLoginsOneUser ==
    [][/\ Len(users') >= Len(users)
       /\ SubSeq(users', 1, Len(users)) = users
       /\ \A i \in 1..Len(users') : users'[i].id = i
       /\ \A g \in GoogleIds : Cardinality(RowsOf(users', g)) <= 1
       /\ \A p \in Proc :
             (/\ pc[p] # "done" /\ pc'[p] = "done"
              /\ response'[p].status = 307)
                 => /\ IsLogin(request'[p])
                    /\ RowsOf(users', request'[p].oauth.sub)
                          = {response'[p].set_cookie.user_id}
                    /\ response'[p].user = users'[response'[p].set_cookie.user_id]
                    /\ verify_token(response'[p].set_cookie, now)
                          = response'[p].set_cookie.user_id]_vars

\* the second login with a google id, at a later second, has been answered
\* with the row the first login created
C15_Witness ==
    \E p \in Proc :
        /\ pc[p] = "done"
        /\ response[p].status = 307
        /\ Len(users) = 1
        /\ Cardinality(minted) = 2
        /\ \A c \in minted : c.user_id = 1
        /\ response[p].set_cookie.user_id = 1

\* C17: a logout leaves the tables and the credentials handed out as they
\* were; a credential a logout has cleared from the browser, presented
\* again before its exp as cookie or as bearer header, is still answered as
\* its user by list-my-articles and by /auth/me.
C17_LogoutRevokesNothing ==
    [][\A p \in Proc :
          /\ (Starts(p) /\ request'[p].path = <<"auth", "logout">>)
                 => /\ pc'[p] = "done"
                    /\ response'[p].status = 200
                    /\ users' = users /\ articles' = articles
                    /\ minted' = minted /\ now' = now
          /\ (/\ Starts(p)
              /\ request'[p].method = "GET" /\ request'[p].path = <<"me", "all">>
              /\ Presented(request'[p]) \in cleared
              /\ Fresh(Presented(request'[p])))
                 => /\ response'[p].status = 200
                    /\ response'[p].rows =
                          SelectSeq(articles, LAMBDA a :
                              a.author_id = Presented(request'[p]).user_id)
          /\ (/\ Starts(p)
              /\ request'[p].path = <<"auth", "me">>
              /\ request'[p].cookie \in cleared
              /\ Fresh(request'[p].cookie))
                 => response'[p].user = users[request'[p].cookie.user_id]]_vars

\* after the logout that cleared it, a credential sent as bearer header has
\* been answered 200
C17_Witness ==
    \E p \in Proc :
        /\ pc[p] = "done"
        /\ response[p].endpoint = "get_my_articles"
        /\ response[p].status = 200
        /\ request[p].cookie = NoToken
        /\ request[p].header.scheme = "bearer"
        /\ request[p].header.cred \in cleared
        /\ Fresh(request[p].header.cred)

\* the columns of table "article"
Columns == {"id", "title", "content", "cover_image", "views", "likes",
            "last_viewed_at", "updated_at", "created_at", "author_id"}

\* the (row, column) pairs whose stored value this step changes
Changed ==
    {<<a, f>> \in (1..Len(articles)) \X Columns : articles'[a][f] # articles[a][f]}

\* task p ends the wait for its commit in this step, by the commit or by
\* being given up
Leaves(p, endpoint) ==
    pc[p] = "commit" /\ local[p].endpoint = endpoint /\ pc'[p] = "done"

\* C16: no step removes a row or changes the id, author_id, created_at or
\* cover_image of a row; a step that changes a stored value is the commit of
\* a get, a like or an update on its own row, and changes at most views and
\* last_viewed_at (get), likes (like), title, content and updated_at
\* (update).
C16_OperationFrames ==
    [][/\ Len(articles') >= Len(articles)
       /\ \A c \in Changed :
             c[2] \notin {"id", "author_id", "created_at", "cover_image"}
       /\ Changed # {} =>
             \E p \in Proc :
                /\ \A c \in Changed : c[1] = local[p].id
                /\ \/ /\ Leaves(p, "get_article")
                      /\ \A c \in Changed : c[2] \in {"views", "last_viewed_at"}
                   \/ /\ Leaves(p, "like_article")
                      /\ \A c \in Changed : c[2] = "likes"
                   \/ /\ Leaves(p, "update_article")
                      /\ \A c \in Changed :
                            c[2] \in {"title", "content", "updated_at"}]_vars

\* the article of second 2 has been read, liked and edited by its author:
\* updated_at is the time of the edit, the other fixed columns are as created
C16_Witness ==
    \E p \in Proc :
        /\ pc[p] = "done"
        /\ response[p].endpoint \in {"get_article", "like_article"}
        /\ response[p].status = 200
        /\ articles = <<[Earlier[1] EXCEPT !.views = 1, !.likes = 1,
                             !.last_viewed_at = now, !.title = "t1",
                             !.updated_at = now]>>
        /\ now # Earlier[1].updated_at

\* C18: every step leaves the article table as it was, or adds one complete
\* row (a create), or sets on one row every column the handler assigned (the
\* commit of a get, like or update); a request given up while it waits for
\* its commit leaves the table as it was.
C18_NoPartialWrite ==
    [][\/ articles' = articles
       \/ \E p \in Proc :
             /\ Starts(p)
             /\ response'[p].endpoint = "create_article"
             /\ response'[p].status = 200
             /\ articles' = Append(articles,
                   [id |-> Len(articles) + 1,
                    title |-> request'[p].body.title,
                    content |-> request'[p].body.content,
                    cover_image |-> request'[p].body.cover_image,
                    views |-> 0, likes |-> 0, last_viewed_at |-> NoTime,
                    updated_at |-> now, created_at |-> now,
                    author_id |-> Presented(request'[p]).user_id])
       \/ \E p \in Proc :
             /\ pc[p] = "commit" /\ pc'[p] = "done"
             /\ response'[p].status = 200
             /\ Len(articles') = Len(articles)
             /\ \A a \in 1..Len(articles) : \A f \in Columns :
                   articles'[a][f] =
                      IF a = local[p].id /\ f \in DOMAIN local[p].set
                      THEN local[p].set[f] ELSE articles[a][f]]_vars

\* a get was given up while it waited for its commit, after another get of
\* the same article was served in full
C18_Witness ==
    \E p \in Proc :
        /\ pc[p] = "done"
        /\ response[p].status = 0
        /\ response[p].endpoint = "get_article"
        /\ ~alone[p]
        /\ articles = <<[Earlier[1] EXCEPT !.views = 1, !.last_viewed_at = now]>>

\* the outcome of an update request by the first check that fails, where
\* valid tells whether its credential counts as valid
UpdateOutcome(req, valid) ==
    LET id == ParseInt(req.path[1])
    IN  IF ~valid THEN 401
        ELSE IF ~HasArticle(id) THEN 404
        ELSE IF articles[id].author_id # Presented(req).user_id THEN 403
        ELSE IF Falsy(req.body.title) \/ Falsy(req.body.content) THEN 400
        ELSE 200

\* an update request is answered as UpdateOutcome tells: refused at once
\* with that status and nothing written, or (200) taken to its commit, which
\* writes the title and content sent
UpdateFollows(p, outcome) ==
    /\ articles' = articles
    /\ IF outcome = 200
       THEN /\ pc'[p] = "commit"
            /\ local'[p].endpoint = "update_article"
            /\ \A f \in DOMAIN local'[p].set :
                  /\ f \in {"title", "content", "updated_at"}
                  /\ f = "title" => local'[p].set[f] = request'[p].body.title
                  /\ f = "content" => local'[p].set[f] = request'[p].body.content
       ELSE /\ pc'[p] = "done"
            /\ response'[p].status = outcome

\* C19: an update is answered by the first check that fails, in the order
\* credential (401), existence (404), author (403), body (400), and the
\* article is written only when all four pass; a credential is valid when
\* the login flow minted it and the time is before its exp.
C19_UpdateOutcomeOrder ==
    [][\A p \in Proc :
          (Starts(p) /\ OnArticle(request'[p], "PUT", <<>>))
              => UpdateFollows(p,
                    UpdateOutcome(request'[p], Fresh(Presented(request'[p]))))]_vars

\* C20: the author_id of every stored article is the id of a stored user
\* row, and so is the user id of every credential the login flow has handed
\* out.
C20_AuthorExists ==
    /\ \A a \in 1..Len(articles) :
          /\ articles[a].author_id \in 1..Len(users)
          /\ users[articles[a].author_id].id = articles[a].author_id
    /\ \A c \in minted : c.user_id \in 1..Len(users)

\* the second user to log in has created an article
C20_Witness ==
    /\ Len(users) = 2
    /\ Len(articles) = 1
    /\ articles[1].author_id = 2

\* C21: list-my-articles with a valid credential of user u is answered 200
\* with exactly the stored articles whose author_id is u, in the order they
\* were inserted (ascending id), and leaves both tables as they were.
C21_ListMineInInsertionOrder ==
    [][\A p \in Proc :
          (/\ Starts(p)
           /\ request'[p].method = "GET" /\ request'[p].path = <<"me", "all">>
           /\ Fresh(Presented(request'[p])))
              => /\ pc'[p] = "done"
                 /\ response'[p].status = 200
                 /\ response'[p].rows =
                       SelectSeq(articles, LAMBDA a :
                           a.author_id = Presented(request'[p]).user_id)
                 /\ articles' = articles /\ users' = users]_vars

====
